---------------------------- MODULE Spec2Model ----------------------------
(***************************************************************************)
(* librestd: the request-routing and connection-dispatch core of           *)
(* src/src/http_server.cpp.                                                *)
(*                                                                         *)
(* Strings are sequences of one-character strings.  The regular            *)
(* expressions of the model are the dialect the route templates below use: *)
(* literal characters, bracket classes [..] without ranges, capturing      *)
(* groups ( .. ) that may nest, and the greedy quantifiers + and * on a    *)
(* literal or a class; every route regex is compiled case-insensitive.     *)
(***************************************************************************)
EXTENDS Integers, Sequences, FiniteSets, TLC

(***************************************************************************)
(* Bounds of the model.                                                    *)
(***************************************************************************)
NumWorkers == 2
MaxConn == 2
MaxRoutes == 2

Workers == 1..NumWorkers
Conns == 1..MaxConn
NULL == 0

(***************************************************************************)
(* Characters and strings.                                                 *)
(***************************************************************************)
Lower(c) == IF c = "A" THEN "a" ELSE IF c = "B" THEN "b" ELSE c

\* [_a-z0-9] under icase, over the characters the model uses
IsNameChar(c) == Lower(c) \in {"_", "a", "b", "x", "y", "0", "1"}

SubStr(s, i, j) == IF i > j THEN <<>> ELSE SubSeq(s, i, j)

\* least element of a non-empty set of integers
Least(S) == CHOOSE x \in S : \A y \in S : x <= y

\* std::string::find(from, start): first position >= start, 0 when absent
Find(s, from, start) ==
  LET hits == {p \in start..(Len(s) - Len(from) + 1) :
                 SubSeq(s, p, p + Len(from) - 1) = from}
  IN IF from = <<>> \/ hits = {} THEN 0 ELSE Least(hits)

\* strings::replace(str, from, to): every occurrence, scanning on after the
\* text just written
RECURSIVE ReplaceFrom(_, _, _, _)
ReplaceFrom(s, from, to, start) ==
  LET p == Find(s, from, start)
  IN IF p = 0 THEN s
     ELSE ReplaceFrom(SubStr(s, 1, p - 1) \o to \o SubStr(s, p + Len(from), Len(s)),
                      from, to, p + Len(to))

Replace(s, from, to) == ReplaceFrom(s, from, to, 1)

(***************************************************************************)
(* NAMED_PARAM_PARSER, the case-insensitive token pattern, searched in s.   *)
(* A match starts at a ':' followed by a non-empty maximal run of name     *)
(* characters, then '(', then everything up to the first ')'.              *)
(***************************************************************************)
TokenAt(s, i) ==
  LET stops == {j \in (i + 1)..Len(s) : ~IsNameChar(s[j])}
      j == IF stops = {} THEN 0 ELSE Least(stops)
      closes == {k \in (j + 1)..Len(s) : s[k] = ")"}
      k == IF j = 0 \/ closes = {} THEN 0 ELSE Least(closes)
  IN IF s[i] = ":" /\ j > i + 1 /\ s[j] = "(" /\ k > 0
     THEN [found |-> TRUE, tok |-> SubSeq(s, i, k), name |-> SubSeq(s, i + 1, j - 1),
           expr |-> SubStr(s, j + 1, k - 1), suffix |-> SubStr(s, k + 1, Len(s))]
     ELSE [found |-> FALSE, tok |-> <<>>, name |-> <<>>, expr |-> <<>>, suffix |-> <<>>]

NamedParamSearch(s) ==
  LET starts == {i \in 1..Len(s) : TokenAt(s, i).found}
  IN IF starts = {} THEN [found |-> FALSE, tok |-> <<>>, name |-> <<>>,
                          expr |-> <<>>, suffix |-> <<>>]
     ELSE TokenAt(s, Least(starts))

(***************************************************************************)
(* std::regex(text, icase): the compiled form is a sequence of tokens      *)
(*   chr   one character (compared case-insensitively), quantifier q       *)
(*   cls   a bracket class, quantifier q                                   *)
(*   open / close   the parentheses of capturing group g, numbered by      *)
(*                  their opening parenthesis from the left                *)
(* The constructor throws std::regex_error on unbalanced parentheses, an   *)
(* unterminated class and a quantifier with nothing to repeat.             *)
(***************************************************************************)
Token(t, g, cs, q) == [t |-> t, g |-> g, cs |-> cs, q |-> q]

BadRegex == [ok |-> FALSE, toks |-> <<>>, ngroups |-> 0]

RECURSIVE Tokenize(_, _, _, _, _)
Tokenize(s, i, toks, stack, ngroups) ==
  IF i > Len(s)
  THEN IF stack = <<>> THEN [ok |-> TRUE, toks |-> toks, ngroups |-> ngroups]
       ELSE BadRegex
  ELSE LET c == s[i] IN
    CASE c = "(" ->
           Tokenize(s, i + 1, Append(toks, Token("open", ngroups + 1, {}, "1")),
                    <<ngroups + 1>> \o stack, ngroups + 1)
      [] c = ")" ->
           IF stack = <<>> THEN BadRegex
           ELSE Tokenize(s, i + 1, Append(toks, Token("close", Head(stack), {}, "1")),
                         Tail(stack), ngroups)
      [] c = "[" ->
           LET ends == {k \in (i + 1)..Len(s) : s[k] = "]"}
           IN IF ends = {} THEN BadRegex
              ELSE LET k == Least(ends)
                   IN Tokenize(s, k + 1,
                               Append(toks, Token("cls", 0,
                                      {Lower(s[m]) : m \in (i + 1)..(k - 1)}, "1")),
                               stack, ngroups)
      [] c \in {"+", "*"} ->
           \* a quantifier repeats the literal or class before it; the dialect
           \* has no quantified group
           IF toks = <<>> THEN BadRegex
           ELSE LET prev == toks[Len(toks)]
                IN IF prev.t \in {"chr", "cls"} /\ prev.q = "1"
                   THEN Tokenize(s, i + 1,
                                 [toks EXCEPT ![Len(toks)].q = c], stack, ngroups)
                   ELSE BadRegex
      [] OTHER ->
           Tokenize(s, i + 1, Append(toks, Token("chr", 0, {Lower(c)}, "1")),
                    stack, ngroups)

RegexCompile(s) == Tokenize(s, 1, <<>>, <<>>, 0)

\* the length of the run of characters of class cs in s from position j
RECURSIVE RunLen(_, _, _)
RunLen(s, j, cs) ==
  IF j <= Len(s) /\ Lower(s[j]) \in cs THEN 1 + RunLen(s, j + 1, cs) ELSE 0

NoMatch == [ok |-> FALSE, caps |-> <<>>]

\* backtracking match of tokens k.. at position j; a quantified token is
\* greedy: the longest run first, then shorter ones
RECURSIVE MatchFrom(_, _, _, _, _, _)
RECURSIVE TryRun(_, _, _, _, _, _, _, _)
MatchFrom(toks, s, k, j, starts, caps) ==
  IF k > Len(toks) THEN [ok |-> TRUE, caps |-> caps]
  ELSE LET tk == toks[k] IN
    CASE tk.t = "open" ->
           MatchFrom(toks, s, k + 1, j, [starts EXCEPT ![tk.g] = j], caps)
      [] tk.t = "close" ->
           MatchFrom(toks, s, k + 1, j, starts,
                     [caps EXCEPT ![tk.g] = SubStr(s, starts[tk.g], j - 1)])
      [] OTHER ->
           LET run == RunLen(s, j, tk.cs)
           IN IF tk.q = "1"
              THEN IF run >= 1 THEN MatchFrom(toks, s, k + 1, j + 1, starts, caps)
                   ELSE NoMatch
              ELSE TryRun(toks, s, k, j, run, IF tk.q = "+" THEN 1 ELSE 0,
                          starts, caps)

TryRun(toks, s, k, j, n, min, starts, caps) ==
  IF n < min THEN NoMatch
  ELSE LET r == MatchFrom(toks, s, k + 1, j + n, starts, caps)
       IN IF r.ok THEN r ELSE TryRun(toks, s, k, j, n - 1, min, starts, caps)

RECURSIVE SearchFrom(_, _, _)
SearchFrom(re, s, start) ==
  IF start > Len(s) + 1 THEN NoMatch
  ELSE LET r == MatchFrom(re.toks, s, 1, start,
                          [g \in 1..re.ngroups |-> 0],
                          [g \in 1..re.ngroups |-> <<>>])
       IN IF r.ok THEN r ELSE SearchFrom(re, s, start + 1)

\* std::regex_search(s, m, re): unanchored, the leftmost match; m.size() is
\* the number of groups of re plus one when it matches
RegexSearch(re, s) ==
  LET r == SearchFrom(re, s, 1)
  IN [ok |-> r.ok, size |-> IF r.ok THEN re.ngroups + 1 ELSE 0, caps |-> r.caps]

(***************************************************************************)
(* http_route                                                              *)
(***************************************************************************)
Methods == {"GET", "POST"}
ANY == "ANY"

\* the rewrite loop of the constructor: tmp is the text still to be scanned
RECURSIVE RewriteLoop(_, _, _, _)
RewriteLoop(tmp, path, names, is_re) ==
  LET m == NamedParamSearch(tmp)
  IN IF m.found
     THEN RewriteLoop(m.suffix, Replace(path, m.tok, <<"(">> \o m.expr \o <<")">>),
                      Append(names, m.name), TRUE)
     ELSE [path |-> path, names |-> names, is_re |-> is_re]

\* http_route::http_route: ok is FALSE when std::regex throws
NewRoute(path, handler, method) ==
  LET w == RewriteLoop(path, path, <<>>, FALSE)
      re == IF w.is_re THEN RegexCompile(w.path) ELSE [ok |-> TRUE, toks |-> <<>>, ngroups |-> 0]
  IN [ok |-> re.ok,
      route |-> [is_re |-> w.is_re, method |-> method, path |-> w.path,
                 names |-> w.names, re |-> re, handler |-> handler]]

RECURSIVE Bind_reversed(_, _, _, _)
Bind_reversed(params, names, caps, i) ==
  IF i > Len(caps) THEN params
  ELSE Bind_reversed([n \in DOMAIN params \cup {names[i]} |->
                        IF n = names[i] THEN caps[Len(caps) + 1 - i] ELSE params[n]],
                     names, caps, i + 1)

\* req.parameters[ names[i - 1] ] = m[i] for i = 1 .. m.size() - 1
RECURSIVE Bind(_, _, _, _)
Bind(params, names, caps, i) ==
  IF i > Len(caps) THEN params
  ELSE Bind([n \in DOMAIN params \cup {names[i]} |->
               IF n = names[i] THEN caps[i] ELSE params[n]],
            names, caps, i + 1)

GroupCountOk(size, names) == size = Len(names) + 1

LowerStr(s) == [i \in 1..Len(s) |-> Lower(s[i])]

Matches_literalIcase(route, req) ==
  IF route.method # ANY /\ req.method # route.method
  THEN [ok |-> FALSE, req |-> req]
  ELSE IF ~route.is_re
  THEN [ok |-> LowerStr(req.path) = LowerStr(route.path), req |-> req]
  ELSE LET m == RegexSearch(route.re, req.path)
       IN IF m.ok /\ GroupCountOk(m.size, route.names)
          THEN [ok |-> TRUE,
                req |-> [req EXCEPT !.parameters = Bind(@, route.names, m.caps, 1)]]
          ELSE [ok |-> FALSE, req |-> req]

\* as Matches, but the groups are bound before the count is tested
Matches_bindsBeforeCountTest(route, req) ==
  IF route.method # ANY /\ req.method # route.method
  THEN [ok |-> FALSE, req |-> req]
  ELSE IF ~route.is_re
  THEN [ok |-> req.path = route.path, req |-> req]
  ELSE LET m == RegexSearch(route.re, req.path)
           n == IF Len(m.caps) < Len(route.names) THEN Len(m.caps)
                ELSE Len(route.names)
           bound == [req EXCEPT !.parameters =
                       Bind(@, route.names, SubStr(m.caps, 1, n), 1)]
       IN [ok |-> m.ok /\ GroupCountOk(m.size, route.names), req |-> bound]

\* http_route::matches: the result and the request as it leaves the call
Matches(route, req) ==
  IF route.method # ANY /\ req.method # route.method
  THEN [ok |-> FALSE, req |-> req]
  ELSE IF ~route.is_re
  THEN [ok |-> req.path = route.path, req |-> req]
  ELSE LET m == RegexSearch(route.re, req.path)
       IN IF m.ok /\ GroupCountOk(m.size, route.names)
          THEN [ok |-> TRUE,
                req |-> [req EXCEPT !.parameters = Bind(@, route.names, m.caps, 1)]]
          ELSE [ok |-> FALSE, req |-> req]

(***************************************************************************)
(* Inputs: the route registrations the setup code may make and the         *)
(* requests the parser may deliver.                                        *)
(***************************************************************************)
TplA == <<"/", "a">>
TplX == <<"/", ":", "x", "(", "[", "a", "b", "]", "+", ")">>
TplY == <<"/", ":", "y", "(", "a", ")">>
TplBad == <<"/", ":", "x", "(", "(", ")">>
TplG == <<"(", "/", ")", ":", "y", "(", "a", ")">>

RouteSpecs ==
  { [path |-> TplA, method |-> ANY],
    [path |-> TplX, method |-> "GET"],
    [path |-> TplY, method |-> ANY],
    [path |-> TplBad, method |-> ANY],
    [path |-> TplG, method |-> ANY] }

Paths == { <<"/", "a">>, <<"/", "B">>, <<"/", "x">> }

Requests == [method : Methods, path : Paths]

\* http_request and http_response as their constructors leave them
FreshRequest == [method |-> "", path |-> <<>>, parameters |-> <<>>]
FreshResponse == [status |-> 200, body |-> 0]

NotFound_forgotten(resp) == resp

\* http_response::not_found
NotFound(resp) == [resp EXCEPT !.status = 404]

\* (controller->*handler)(req, resp) returning normally: the handler fills
\* the response it is given
HandlerReturns(h, resp) == [resp EXCEPT !.body = h]

Event(e, w, a) == [e |-> e, w |-> w, a |-> a]

VARIABLES
  mainPc,      \* the thread that sets the server up and calls start()
  _routes,     \* http_server::_routes
  _queue,      \* http_server::_queue
  nconn,       \* connections the transport has handed out so far
  accClient,   \* the local client of http_server::start
  pc,          \* each consumer thread's position
  client,      \* the tcp_stream each consumer is consuming
  request,     \* the local request of http_consumer::consume
  response,    \* the local response of http_consumer::consume
  it,          \* the iterator of http_consumer::route, as an index
  dtorPc,      \* the position of ~http_server
  terminated,  \* the process was ended by std::terminate or a fault
  trace,       \* history: what happened to each connection, in order
  ctorPc,      \* the position of one http_route under construction and use
  tpl,         \* the path argument the constructor was given
  ctor_tmp,    \* the local tmp of the constructor
  this_path,   \* http_route::path
  this_names,  \* http_route::names
  this_is_re,  \* http_route::is_re
  this_method, \* http_route::method
  this_re,     \* http_route::re
  req_in,      \* the request handed to http_route::matches
  m_out        \* what http_route::matches returned and left in the request

serverVars == <<mainPc, _routes, _queue, nconn, accClient, pc, client, request,
                response, it, dtorPc, terminated, trace>>

ctorVars == <<ctorPc, tpl, ctor_tmp, this_path, this_names, this_is_re,
              this_method, this_re, req_in, m_out>>

vars == <<serverVars, ctorVars>>

workerVars == <<pc, client, request, response, it>>

Log(c, ev) == [trace EXCEPT ![c] = Append(@, ev)]

\* the server as its constructor leaves it
ServerInit ==
  /\ mainPc = "setup"
  /\ _routes = <<>>
  /\ _queue = <<>>
  /\ nconn = 0
  /\ accClient = NULL
  /\ pc = [w \in Workers |-> "unstarted"]
  /\ client = [w \in Workers |-> NULL]
  /\ request = [w \in Workers |-> FreshRequest]
  /\ response = [w \in Workers |-> FreshResponse]
  /\ it = [w \in Workers |-> 0]
  /\ dtorPc = "none"
  /\ terminated = FALSE
  /\ trace = [c \in Conns |-> <<>>]

NoRegex == [ok |-> TRUE, toks |-> <<>>, ngroups |-> 0]

\* no route is being constructed on its own
NoCtor ==
  /\ ctorPc = "none"
  /\ tpl = <<>>
  /\ ctor_tmp = <<>>
  /\ this_path = <<>>
  /\ this_names = <<>>
  /\ this_is_re = FALSE
  /\ this_method = ANY
  /\ this_re = NoRegex
  /\ req_in = FreshRequest
  /\ m_out = [ok |-> FALSE, req |-> FreshRequest]

Init == ServerInit /\ NoCtor

(***************************************************************************)
(* http_server::route, called by the setup code before start()             *)
(***************************************************************************)
Register(rs) ==
  /\ ~terminated
  /\ UNCHANGED ctorVars
  /\ mainPc = "setup"
  /\ Len(_routes) < MaxRoutes
  /\ LET r == NewRoute(rs.path, Len(_routes) + 1, rs.method)
     IN /\ r.ok
        /\ _routes' = Append(_routes, r.route)
  /\ UNCHANGED <<mainPc, _queue, nconn, accClient, workerVars, dtorPc,
                 terminated, trace>>

\* as RegisterThrow, but the route is pushed before its regex is built
RegisterThrow_pushesFirst(rs) ==
  /\ ~terminated
  /\ UNCHANGED ctorVars
  /\ mainPc = "setup"
  /\ Len(_routes) < MaxRoutes
  /\ ~NewRoute(rs.path, Len(_routes) + 1, rs.method).ok
  /\ _routes' = Append(_routes, NewRoute(rs.path, Len(_routes) + 1, rs.method).route)
  /\ mainPc' = "route_failed"
  /\ UNCHANGED <<_queue, nconn, accClient, workerVars, dtorPc, terminated, trace>>

\* the constructor of http_route throws: nothing is pushed and the exception
\* leaves route()
RegisterThrow(rs) ==
  /\ ~terminated
  /\ UNCHANGED ctorVars
  /\ mainPc = "setup"
  /\ Len(_routes) < MaxRoutes
  /\ ~NewRoute(rs.path, Len(_routes) + 1, rs.method).ok
  /\ mainPc' = "route_failed"
  /\ UNCHANGED <<_routes, _queue, nconn, accClient, workerVars, dtorPc,
                 terminated, trace>>

(***************************************************************************)
(* http_server::start                                                      *)
(***************************************************************************)
StartConsumers ==
  /\ ~terminated
  /\ UNCHANGED ctorVars
  /\ mainPc = "setup"
  /\ mainPc' = "listen"
  /\ pc' = [w \in Workers |-> "idle"]
  /\ UNCHANGED <<_routes, _queue, nconn, accClient, client, request, response,
                 it, dtorPc, terminated, trace>>

\* _server->start() == true, or start() returns
Listen ==
  /\ ~terminated
  /\ UNCHANGED ctorVars
  /\ mainPc = "listen"
  /\ \E ok \in BOOLEAN : mainPc' = IF ok THEN "accept" ELSE "returned"
  /\ UNCHANGED <<_routes, _queue, nconn, accClient, workerVars, dtorPc,
                 terminated, trace>>

\* _server->accept() hands out a new connection
AcceptConn ==
  /\ ~terminated
  /\ UNCHANGED ctorVars
  /\ mainPc = "accept"
  /\ dtorPc = "none"
  /\ nconn < MaxConn
  /\ nconn' = nconn + 1
  /\ accClient' = nconn + 1
  /\ mainPc' = "add"
  /\ UNCHANGED <<_routes, _queue, workerVars, dtorPc, terminated, trace>>

\* _server->accept() yields no connection: an error, or the server stopped
AcceptNull ==
  /\ ~terminated
  /\ UNCHANGED ctorVars
  /\ mainPc = "accept"
  /\ accClient' = NULL
  /\ mainPc' = "add"
  /\ UNCHANGED <<_routes, _queue, nconn, workerVars, dtorPc, terminated, trace>>

\* _server->accept() through the pointer ~http_server has deleted
AcceptDangling ==
  /\ ~terminated
  /\ UNCHANGED ctorVars
  /\ mainPc = "accept"
  /\ dtorPc \in {"server_deleted", "done"}
  /\ terminated' = TRUE
  /\ UNCHANGED <<mainPc, _routes, _queue, nconn, accClient, workerVars, dtorPc,
                 trace>>

ShouldAdd_always(c) == TRUE

ShouldAdd(c) == c # NULL

\* if( client ){ _queue.add(client); }
Enqueue ==
  /\ ~terminated
  /\ UNCHANGED ctorVars
  /\ mainPc = "add"
  /\ IF ShouldAdd(accClient)
     THEN /\ _queue' = Append(_queue, accClient)
          /\ trace' = IF accClient \in Conns
                      THEN Log(accClient, Event("enq", 0, 0)) ELSE trace
     ELSE UNCHANGED <<_queue, trace>>
  /\ accClient' = NULL
  /\ mainPc' = "accept"
  /\ UNCHANGED <<_routes, nconn, workerVars, dtorPc, terminated>>

\* _queue.add on the queue of a destroyed http_server
EnqueueDangling ==
  /\ ~terminated
  /\ UNCHANGED ctorVars
  /\ mainPc = "add"
  /\ accClient # NULL
  /\ dtorPc = "done"
  /\ terminated' = TRUE
  /\ UNCHANGED <<mainPc, _routes, _queue, nconn, accClient, workerVars, dtorPc,
                 trace>>

(***************************************************************************)
(* The consumer thread: take a connection from the queue, consume it,      *)
(* release it, and take the next.                                          *)
(***************************************************************************)
\* the blocking take of the queue, then the entry of consume with its locals
Take(w) ==
  /\ ~terminated
  /\ UNCHANGED ctorVars
  /\ pc[w] = "idle"
  /\ _queue # <<>>
  /\ LET c == Head(_queue)
     IN /\ client' = [client EXCEPT ![w] = c]
        /\ trace' = IF c \in Conns THEN Log(c, Event("take", w, 0)) ELSE trace
  /\ _queue' = Tail(_queue)
  /\ request' = [request EXCEPT ![w] = FreshRequest]
  /\ response' = [response EXCEPT ![w] = FreshResponse]
  /\ pc' = [pc EXCEPT ![w] = "read"]
  /\ UNCHANGED <<mainPc, _routes, nconn, accClient, it, dtorPc, terminated>>

ReadFailed_negativeOnly(n) == n < 0

ReadFailed(n) == n <= 0

\* as Receive, but the failed read deletes the connection before it returns
Receive_deletesClient(w) ==
  /\ ~terminated
  /\ UNCHANGED ctorVars
  /\ pc[w] = "read"
  /\ client[w] \in Conns
  /\ \E n \in {-1, 0, 1} :
       /\ trace' = IF ReadFailed(n)
                   THEN [trace EXCEPT ![client[w]] =
                           @ \o <<Event("read", w, n), Event("release", w, 0)>>]
                   ELSE Log(client[w], Event("read", w, n))
       /\ pc' = [pc EXCEPT ![w] = IF ReadFailed(n) THEN "return" ELSE "parse"]
  /\ UNCHANGED <<mainPc, _routes, _queue, nconn, accClient, client, request,
                 response, it, dtorPc, terminated>>

\* int read = client->receive(...); if( read <= 0 ) return;
Receive(w) ==
  /\ ~terminated
  /\ UNCHANGED ctorVars
  /\ pc[w] = "read"
  /\ client[w] \in Conns
  /\ \E n \in {-1, 0, 1} :
       /\ trace' = Log(client[w], Event("read", w, n))
       /\ pc' = [pc EXCEPT ![w] = IF ReadFailed(n) THEN "return" ELSE "parse"]
  /\ UNCHANGED <<mainPc, _routes, _queue, nconn, accClient, client, request,
                 response, it, dtorPc, terminated>>

\* parse outcomes: 1 the request was parsed, 0 parse returned false,
\* -1 parse threw std::regex_error, which consume catches
ParseOutcomes == {1, 0, -1}

AfterParse_noReturn(res) == "route"

AfterParse(res) == IF res = 1 THEN "route" ELSE "return"

Parse(w) ==
  /\ ~terminated
  /\ UNCHANGED ctorVars
  /\ pc[w] = "parse"
  /\ \E res \in ParseOutcomes, rq \in Requests :
       /\ res # 1 => rq = CHOOSE r \in Requests : TRUE
       /\ request' = IF res = 1
                     THEN [request EXCEPT ![w].method = rq.method, ![w].path = rq.path]
                     ELSE request
       /\ trace' = Log(client[w], Event("parse", w, res))
       /\ pc' = [pc EXCEPT ![w] = AfterParse(res)]
       /\ it' = [it EXCEPT ![w] = IF AfterParse(res) = "route" THEN 1 ELSE 0]
  /\ UNCHANGED <<mainPc, _routes, _queue, nconn, accClient, client, response,
                 dtorPc, terminated>>

(***************************************************************************)
(* http_consumer::route, one step for each route it tries                  *)
(***************************************************************************)
\* as RouteMiss, but the iterator is one object shared by the consumers
RouteMiss_sharedIterator(w) ==
  /\ ~terminated
  /\ UNCHANGED ctorVars
  /\ pc[w] = "route"
  /\ it[w] <= Len(_routes)
  /\ LET m == Matches(_routes[it[w]], request[w])
     IN /\ ~m.ok
        /\ request' = [request EXCEPT ![w] = m.req]
  /\ it' = [v \in Workers |-> IF pc[v] = "route" THEN it[w] + 1 ELSE it[v]]
  /\ UNCHANGED <<mainPc, _routes, _queue, nconn, accClient, pc, client, response,
                 dtorPc, terminated, trace>>

\* route->matches( request ) is false: ++i
RouteMiss(w) ==
  /\ ~terminated
  /\ UNCHANGED ctorVars
  /\ pc[w] = "route"
  /\ it[w] <= Len(_routes)
  /\ LET m == Matches(_routes[it[w]], request[w])
     IN /\ ~m.ok
        /\ request' = [request EXCEPT ![w] = m.req]
  /\ it' = [it EXCEPT ![w] = @ + 1]
  /\ UNCHANGED <<mainPc, _routes, _queue, nconn, accClient, pc, client, response,
                 dtorPc, terminated, trace>>

\* as RouteHit, but the loop goes on to the next route after the call
RouteHit_noReturn(w) ==
  /\ ~terminated
  /\ UNCHANGED ctorVars
  /\ pc[w] = "route"
  /\ it[w] <= Len(_routes)
  /\ LET m == Matches(_routes[it[w]], request[w])
     IN /\ m.ok
        /\ request' = [request EXCEPT ![w] = m.req]
        /\ response' = [response EXCEPT
                          ![w] = HandlerReturns(_routes[it[w]].handler, @)]
  /\ trace' = Log(client[w], Event("call", w, it[w]))
  /\ it' = [it EXCEPT ![w] = @ + 1]
  /\ UNCHANGED <<mainPc, _routes, _queue, nconn, accClient, pc, client, dtorPc,
                 terminated>>

\* route->matches( request ) is true and the handler returns: return
RouteHit(w) ==
  /\ ~terminated
  /\ UNCHANGED ctorVars
  /\ pc[w] = "route"
  /\ it[w] <= Len(_routes)
  /\ LET m == Matches(_routes[it[w]], request[w])
     IN /\ m.ok
        /\ request' = [request EXCEPT ![w] = m.req]
        /\ response' = [response EXCEPT
                          ![w] = HandlerReturns(_routes[it[w]].handler, @)]
  /\ trace' = Log(client[w], Event("call", w, it[w]))
  /\ it' = [it EXCEPT ![w] = 0]
  /\ pc' = [pc EXCEPT ![w] = "send"]
  /\ UNCHANGED <<mainPc, _routes, _queue, nconn, accClient, client, dtorPc,
                 terminated>>

\* route->matches( request ) is true and the handler throws: nothing between
\* the handler and the thread's entry function catches, so the exception
\* ends the process
RouteHitThrows(w) ==
  /\ ~terminated
  /\ UNCHANGED ctorVars
  /\ pc[w] = "route"
  /\ it[w] <= Len(_routes)
  /\ LET m == Matches(_routes[it[w]], request[w])
     IN /\ m.ok
        /\ request' = [request EXCEPT ![w] = m.req]
  /\ trace' = Log(client[w], Event("throw", w, it[w]))
  /\ terminated' = TRUE
  /\ UNCHANGED <<mainPc, _routes, _queue, nconn, accClient, pc, client, response,
                 it, dtorPc>>

\* the loop ends without a match: response.not_found()
RouteNotFound(w) ==
  /\ ~terminated
  /\ UNCHANGED ctorVars
  /\ pc[w] = "route"
  /\ it[w] > Len(_routes)
  /\ response' = [response EXCEPT ![w] = NotFound(@)]
  /\ trace' = Log(client[w], Event("notfound", w, 0))
  /\ it' = [it EXCEPT ![w] = 0]
  /\ pc' = [pc EXCEPT ![w] = "send"]
  /\ UNCHANGED <<mainPc, _routes, _queue, nconn, accClient, client, request,
                 dtorPc, terminated>>

\* client->send(...): 1 the whole response was sent, 0 it was not; either
\* way consume returns
Send(w) ==
  /\ ~terminated
  /\ UNCHANGED ctorVars
  /\ pc[w] = "send"
  /\ \E whole \in {0, 1} : trace' = Log(client[w], Event("send", w, whole))
  /\ pc' = [pc EXCEPT ![w] = "return"]
  /\ UNCHANGED <<mainPc, _routes, _queue, nconn, accClient, client, request,
                 response, it, dtorPc, terminated>>

\* consume has returned: its locals are gone, the thread deletes the
\* connection and goes back to the queue
Release(w) ==
  /\ ~terminated
  /\ UNCHANGED ctorVars
  /\ pc[w] = "return"
  /\ trace' = Log(client[w], Event("release", w, 0))
  /\ client' = [client EXCEPT ![w] = NULL]
  /\ request' = [request EXCEPT ![w] = FreshRequest]
  /\ response' = [response EXCEPT ![w] = FreshResponse]
  /\ pc' = [pc EXCEPT ![w] = "idle"]
  /\ UNCHANGED <<mainPc, _routes, _queue, nconn, accClient, it, dtorPc,
                 terminated>>

(***************************************************************************)
(* http_server::~http_server, run by another thread while start() is in    *)
(* its accept loop, or after start() has returned                          *)
(***************************************************************************)
\* _server->stop()
DtorStop ==
  /\ ~terminated
  /\ UNCHANGED ctorVars
  /\ mainPc \in {"accept", "add", "returned"}
  /\ dtorPc = "none"
  /\ dtorPc' = "stopped"
  /\ UNCHANGED <<mainPc, _routes, _queue, nconn, accClient, workerVars,
                 terminated, trace>>

\* delete _server
DtorDeleteServer ==
  /\ ~terminated
  /\ UNCHANGED ctorVars
  /\ dtorPc = "stopped"
  /\ dtorPc' = "server_deleted"
  /\ UNCHANGED <<mainPc, _routes, _queue, nconn, accClient, workerVars,
                 terminated, trace>>

\* delete (*i) over _consumers, in order: the consumer's thread is stopped
\* where it stands
DtorDeleteConsumer(w) ==
  /\ ~terminated
  /\ UNCHANGED ctorVars
  /\ dtorPc = "server_deleted"
  /\ pc[w] # "dead"
  /\ \A v \in Workers : v < w => pc[v] = "dead"
  /\ pc' = [pc EXCEPT ![w] = "dead"]
  /\ request' = [request EXCEPT ![w] = FreshRequest]
  /\ response' = [response EXCEPT ![w] = FreshResponse]
  /\ it' = [it EXCEPT ![w] = 0]
  /\ UNCHANGED <<mainPc, _routes, _queue, nconn, accClient, client, dtorPc,
                 terminated, trace>>

\* _consumers.clear(); delete (*i) over _routes; _routes.clear()
DtorDeleteRoutes ==
  /\ ~terminated
  /\ UNCHANGED ctorVars
  /\ dtorPc = "server_deleted"
  /\ \A w \in Workers : pc[w] = "dead"
  /\ _routes' = <<>>
  /\ dtorPc' = "done"
  /\ UNCHANGED <<mainPc, _queue, nconn, accClient, workerVars, terminated, trace>>

Next ==
  \/ \E rs \in RouteSpecs : Register(rs)
  \/ \E rs \in RouteSpecs : RegisterThrow(rs)
  \/ StartConsumers
  \/ Listen
  \/ AcceptConn
  \/ AcceptNull
  \/ AcceptDangling
  \/ Enqueue
  \/ EnqueueDangling
  \/ \E w \in Workers : Take(w)
  \/ \E w \in Workers : Receive(w)
  \/ \E w \in Workers : Parse(w)
  \/ \E w \in Workers : RouteMiss(w)
  \/ \E w \in Workers : RouteHit(w)
  \/ \E w \in Workers : RouteHitThrows(w)
  \/ \E w \in Workers : RouteNotFound(w)
  \/ \E w \in Workers : Send(w)
  \/ \E w \in Workers : Release(w)
  \/ DtorStop
  \/ DtorDeleteServer
  \/ \E w \in Workers : DtorDeleteConsumer(w)
  \/ DtorDeleteRoutes

Spec == Init /\ [][Next]_vars

(***************************************************************************)
(* Reading the history                                                     *)
(***************************************************************************)
IsInvoke(ev) == ev.e \in {"call", "throw"}

\* the routes whose handler was invoked for connection c, in order
Invoked(c) ==
  LET calls == SelectSeq(trace[c], IsInvoke)
  IN [i \in 1..Len(calls) |-> calls[i].a]

\* how often event e is in the history of connection c
Count(c, e) == Cardinality({i \in 1..Len(trace[c]) : trace[c][i].e = e})

\* the position of the first event e in the history of c, 0 when absent
Pos(c, e) ==
  LET at == {i \in 1..Len(trace[c]) : trace[c][i].e = e}
  IN IF at = {} THEN 0 ELSE Least(at)

\* the argument of the first event e in the history of c
Arg(c, e) == trace[c][Pos(c, e)].a

\* the routes of the table that match a request
MatchSet(req) == {i \in 1..Len(_routes) : Matches(_routes[i], req).ok}

\* worker w is in consume, in or past the call of route()
Dispatching(w) == pc[w] = "route"
Dispatched(w) == pc[w] \in {"send", "return"} /\ Pos(client[w], "parse") > 0
                   /\ Arg(client[w], "parse") = 1

(***************************************************************************)
(* C1: when two or more registered routes match a request, route() invokes *)
(* the handler of the earliest registered of them exactly once, and the    *)
(* handler of no later one: while the loop runs nothing or only that       *)
(* handler has been invoked, and once route() has returned exactly that    *)
(* handler has, once, and it is the one that filled the response.          *)
(***************************************************************************)
C1_FirstMatchWins ==
  \A w \in Workers :
    (Dispatching(w) \/ Dispatched(w)) /\ Cardinality(MatchSet(request[w])) >= 2
    => LET first == Least(MatchSet(request[w]))
       IN /\ Invoked(client[w]) \in {<<>>, <<first>>}
          /\ Dispatched(w) => /\ Invoked(client[w]) = <<first>>
                              /\ response[w].body = _routes[first].handler
                              /\ response[w].status = 200

C1_Witness ==
  \E w \in Workers :
    /\ Dispatched(w)
    /\ Cardinality(MatchSet(request[w])) >= 2
    /\ Invoked(client[w]) = <<1>>
    /\ MatchSet(request[w]) = {1, 2}

(***************************************************************************)
(* C2: for a request that no registered route matches, the empty table     *)
(* included, dispatch marks the response not-found and invokes no handler. *)
(***************************************************************************)
C2_NoMatchNotFound ==
  \A w \in Workers :
    (Dispatching(w) \/ Dispatched(w)) /\ MatchSet(request[w]) = {}
    => /\ Invoked(client[w]) = <<>>
       /\ Dispatched(w) => /\ response[w].status = 404
                           /\ response[w].body = 0

C2_Witness ==
  \E w \in Workers :
    /\ Dispatched(w)
    /\ Len(_routes) = MaxRoutes
    /\ MatchSet(request[w]) = {}
    /\ response[w].status = 404

\* the worker that took connection c from the queue, 0 when none has
Taker(c) == IF Pos(c, "take") = 0 THEN 0 ELSE trace[c][Pos(c, "take")].w

\* the way the cycle of connection c left consume, none while it has not
ExitPath(c) ==
  IF Pos(c, "read") > 0 /\ Arg(c, "read") <= 0 THEN "read_failed"
  ELSE IF Pos(c, "parse") > 0 /\ Arg(c, "parse") = 0 THEN "parse_false"
  ELSE IF Pos(c, "parse") > 0 /\ Arg(c, "parse") = -1 THEN "parse_threw"
  ELSE IF Pos(c, "send") > 0 /\ Arg(c, "send") = 1 THEN "sent"
  ELSE IF Pos(c, "send") > 0 /\ Arg(c, "send") = 0 THEN "short_send"
  ELSE "none"

Released(c) == Count(c, "release") = 1

\* consume has returned for c and its worker stands right before the release
AtRelease(c) ==
  /\ Taker(c) \in Workers
  /\ client[Taker(c)] = c
  /\ pc[Taker(c)] \in {"return", "dead"}

(***************************************************************************)
(* C3: a connection handle a worker pulled from the queue is released      *)
(* exactly once, by that worker, on each of the exit paths of its cycle    *)
(* (read zero or negative, parse false, parse throwing std::regex_error,   *)
(* whole send, short send): it is never released twice, a release is the   *)
(* last event of the handle and is made by the worker that took it after   *)
(* one of these exits, and once the cycle has left consume on any of them  *)
(* the handle is released or its worker stands at the release, from which  *)
(* only the destructor of the server can keep it.                          *)
(***************************************************************************)
C3_ReleasedOnce ==
  \A c \in Conns :
    /\ Count(c, "release") <= 1
    /\ Released(c)
       => /\ trace[c][Len(trace[c])] = Event("release", Taker(c), 0)
          /\ ExitPath(c) # "none"
          /\ client[Taker(c)] # c
    /\ ExitPath(c) # "none" => Released(c) \/ AtRelease(c)
    /\ Taker(c) \in Workers /\ ~Released(c) => client[Taker(c)] = c

C3_Witness ==
  /\ Released(1) /\ ExitPath(1) = "parse_threw"
  /\ Released(2) /\ ExitPath(2) = "short_send"

(***************************************************************************)
(* C6: for a connection whose read returns zero or a negative count the    *)
(* worker parses nothing, dispatches nothing (no handler is invoked) and   *)
(* sends nothing, and the connection is released: after the failed read    *)
(* the only further event of the connection is its release.                *)
(***************************************************************************)
C6_FailedReadAbandons ==
  \A c \in Conns :
    ExitPath(c) = "read_failed"
    => /\ Count(c, "parse") = 0
       /\ Invoked(c) = <<>>
       /\ Count(c, "send") = 0
       /\ Released(c) \/ AtRelease(c)
       /\ \A w \in Workers : client[w] = c => pc[w] \in {"return", "dead"}

C6_Witness ==
  /\ ExitPath(1) = "read_failed" /\ Arg(1, "read") = 0 /\ Released(1)
  /\ ExitPath(2) = "read_failed" /\ Arg(2, "read") = -1 /\ Released(2)

(***************************************************************************)
(* C8: a connection accept returned, once the accept loop has passed its   *)
(* add, is on the history of the queue exactly once, and a null result is  *)
(* never queued; a queued handle is taken at most once, after it was       *)
(* queued; everything that happens to a handle after its take is done by   *)
(* the worker that took it; and no two workers hold the same handle.       *)
(***************************************************************************)
C8_OneOwner ==
  /\ \A i \in 1..Len(_queue) :
       /\ _queue[i] \in Conns
       /\ Count(_queue[i], "enq") = 1 /\ Count(_queue[i], "take") = 0
       /\ \A j \in 1..Len(_queue) : _queue[i] = _queue[j] => i = j
  /\ \A c \in Conns :
       /\ Count(c, "enq") <= 1 /\ Count(c, "take") <= 1
       /\ c <= nconn /\ c # accClient => Count(c, "enq") = 1
       /\ c > nconn \/ c = accClient => trace[c] = <<>>
       /\ Count(c, "take") = 1 => Pos(c, "enq") = 1 /\ Pos(c, "take") = 2
       /\ \A i \in 1..Len(trace[c]) : i >= 2 => trace[c][i].w = Taker(c)
       /\ \A w \in Workers : client[w] = c => Taker(c) = w
  /\ \A w, v \in Workers : w # v /\ client[w] # NULL => client[w] # client[v]

C8_Witness ==
  /\ NumWorkers >= 2
  /\ pc[1] = "parse" /\ pc[2] = "parse"
  /\ client[1] = 2 /\ client[2] = 1

(***************************************************************************)
(* http_consumer::route run alone, from its first route to its return, on  *)
(* a request as parse delivers it and a response as consume constructs it: *)
(* the request and response it leaves and the routes whose handler it      *)
(* called.                                                                 *)
(***************************************************************************)
RECURSIVE RouteFrom(_, _, _, _)
RouteFrom(routes, req, resp, i) ==
  IF i > Len(routes)
  THEN [req |-> req, resp |-> NotFound(resp), called |-> <<>>]
  ELSE LET m == Matches(routes[i], req)
       IN IF m.ok
          THEN [req |-> m.req, resp |-> HandlerReturns(routes[i].handler, resp),
                called |-> <<i>>]
          ELSE RouteFrom(routes, m.req, resp, i + 1)

RouteAlone(routes, method, path) ==
  RouteFrom(routes, [FreshRequest EXCEPT !.method = method, !.path = path],
            FreshResponse, 1)

\* what worker w holds after dispatch is what route() alone makes of the
\* method and path it parsed
AsAlone(w) ==
  LET alone == RouteAlone(_routes, request[w].method, request[w].path)
  IN /\ request[w] = alone.req
     /\ response[w] = alone.resp
     /\ Invoked(client[w]) = alone.called

ParseFailedOn(c) == ExitPath(c) \in {"parse_false", "parse_threw"}

\* the connection worker w took right before connection c, 0 when none
PrevOf(w, c) ==
  LET before == {d \in Conns : d < c /\ Taker(d) = w}
  IN IF before = {} THEN 0 ELSE CHOOSE d \in before : \A x \in before : x <= d

(***************************************************************************)
(* C5: a connection whose parse fails (parse returns false or throws       *)
(* std::regex_error) gets no handler invoked and nothing sent, only its    *)
(* release; and the connection the same worker pulls next starts from a    *)
(* fresh request and response and, once dispatched, holds exactly what     *)
(* dispatching its request alone produces.                                 *)
(***************************************************************************)
C5_ParseFailureIsolated ==
  /\ \A c \in Conns :
       ParseFailedOn(c)
       => /\ Invoked(c) = <<>>
          /\ Count(c, "send") = 0
          /\ Released(c) \/ AtRelease(c)
  /\ \A w \in Workers :
       client[w] \in Conns /\ PrevOf(w, client[w]) # 0
         /\ ParseFailedOn(PrevOf(w, client[w]))
       => /\ pc[w] = "read" => request[w] = FreshRequest /\ response[w] = FreshResponse
          /\ Dispatched(w) => AsAlone(w)

C5_Witness ==
  \E w \in Workers :
    /\ client[w] = 2 /\ PrevOf(w, 2) = 1 /\ ExitPath(1) = "parse_threw"
    /\ Dispatched(w)
    /\ request[w].parameters # <<>>

\* after dispatch every worker holds what route() alone produces
C7_Inv == \A w \in Workers : Dispatched(w) => AsAlone(w)

\* the route table changes only while no consumer thread runs
C7_TableFixed ==
  [][_routes' # _routes => \A w \in Workers : pc[w] \in {"unstarted", "dead"}]_vars

(***************************************************************************)
(* C7: with the workers dispatching concurrently against the one route     *)
(* table built before start(), no step taken while a worker runs changes   *)
(* the table or a route of it, and every request leaves dispatch with      *)
(* exactly the parameter bindings, the response and the handler that       *)
(* dispatching it alone produces.                                          *)
(***************************************************************************)
C7_RaceFree == []C7_Inv /\ C7_TableFixed

C7_Witness ==
  \E w, v \in Workers :
    /\ w # v
    /\ Dispatched(w) /\ request[w].parameters # <<>>
    /\ Dispatching(v) /\ it[v] = 2 /\ request[v].path # request[w].path

(***************************************************************************)
(* Each thread keeps running while it has a step to take: the thread in    *)
(* start(), every consumer thread, and the thread in the destructor.       *)
(***************************************************************************)
MainStep ==
  \/ StartConsumers \/ Listen \/ AcceptConn \/ AcceptNull \/ AcceptDangling
  \/ Enqueue \/ EnqueueDangling

WorkerStep(w) ==
  \/ Take(w) \/ Receive(w) \/ Parse(w) \/ RouteMiss(w) \/ RouteHit(w)
  \/ RouteHitThrows(w) \/ RouteNotFound(w) \/ Send(w) \/ Release(w)

DtorStep ==
  \/ DtorStop \/ DtorDeleteServer \/ DtorDeleteRoutes
  \/ \E w \in Workers : DtorDeleteConsumer(w)

FairSpec ==
  /\ Spec
  /\ WF_vars(MainStep)
  /\ \A w \in Workers : WF_vars(WorkerStep(w))
  /\ WF_vars(DtorStep)

Failed(c) ==
  \/ ExitPath(c) \in {"read_failed", "parse_false", "parse_threw", "short_send"}
  \/ Count(c, "throw") > 0

(***************************************************************************)
(* C4: a failure in any stage of a worker's cycle (reading, parsing,       *)
(* dispatching, a handler that raises included, responding) brings that    *)
(* worker back to Idle with its loop running and stops neither the accept  *)
(* loop nor a sibling: while no shutdown is under way, a connection whose  *)
(* cycle failed is released or at its release, and the process runs.       *)
(***************************************************************************)
C4_FailuresContained ==
  \A c \in Conns :
    Failed(c) /\ dtorPc = "none"
    => /\ ~terminated
       /\ Released(c) \/ AtRelease(c)

(***************************************************************************)
(* C9: once the acceptor is stopped while start() is in its accept loop,   *)
(* the accept loop eventually returns (a process ended by a fault is       *)
(* counted as having left the loop).                                       *)
(***************************************************************************)
C9_AcceptLoopReturns ==
  (dtorPc # "none" /\ mainPc \in {"accept", "add"})
    ~> (mainPc = "returned" \/ terminated)

AllStopped == \A w \in Workers : pc[w] = "dead"

C10_Order ==
  /\ (\E w \in Workers : pc[w] = "dead") => dtorPc \in {"server_deleted", "done"}
  /\ dtorPc = "done" => AllStopped

C10_RoutesAfterWorkers == [][_routes' # _routes /\ dtorPc # "none" => AllStopped]_vars

C10_NoEnqueueAfterStop == [][AllStopped => Len(_queue') <= Len(_queue)]_vars

(***************************************************************************)
(* C10: shutdown goes acceptor stopped, then all workers stopped, then the *)
(* routes released: a worker is stopped only after the acceptor, the       *)
(* routes are released only when every worker is stopped, so no route is   *)
(* released while a worker can dispatch, and no connection is put on the   *)
(* queue once the workers are stopped.                                     *)
(***************************************************************************)
C10_ShutdownOrder == []C10_Order /\ C10_RoutesAfterWorkers /\ C10_NoEnqueueAfterStop

(***************************************************************************)
(* One http_route on its own: the constructor run one iteration of its     *)
(* rewrite loop at a time, then one call of matches on the finished route. *)
(* The templates are the concatenations of at most MaxSegs segments.       *)
(***************************************************************************)
MaxSegs == 2

Segments ==
  { <<"/">>,
    <<"a">>,
    <<":", "x", "(", "a", ")">>,
    <<":", "y", "(", "[", "a", "b", "]", "+", ")">>,
    <<":", "x", "(", "b", ")">>,
    <<":", "x">>,
    <<":", "x", "(">>,
    <<")">>,
    <<"(", "a", ")">> }

RECURSIVE Concat(_)
Concat(n) ==
  IF n = 0 THEN { <<>> }
  ELSE Concat(n - 1) \cup { s \o t : s \in Segments, t \in Concat(n - 1) }

Templates == Concat(MaxSegs)

MatchPaths ==
  { <<>>, <<"a">>, <<"A">>, <<"a", "b">>, <<"b", "a">>, <<"/", "a">>,
    <<"a", "a">>, <<":", "x", "a">> }

\* parameters a request may already carry when matches is called
OldParams == <<"x">> :> <<"o">>

MatchRequests(t) ==
  [method : Methods, path : MatchPaths \cup {t}, parameters : {<<>>, OldParams}]

\* the constructor entered with (path, method): the initialiser list and
\* the copy tmp(path)
CtorInit ==
  /\ ctorPc = "loop"
  /\ tpl \in Templates
  /\ ctor_tmp = tpl
  /\ this_path = tpl
  /\ this_names = <<>>
  /\ this_is_re = FALSE
  /\ this_method \in Methods \cup {ANY}
  /\ this_re = NoRegex
  /\ req_in = FreshRequest
  /\ m_out = [ok |-> FALSE, req |-> FreshRequest]

RewriteStep_noGroup ==
  /\ ctorPc = "loop"
  /\ \E m \in {NamedParamSearch(ctor_tmp)} :
        /\ m.found
        /\ this_is_re' = TRUE
        /\ this_path' = Replace(this_path, m.tok, m.expr)
        /\ this_names' = Append(this_names, m.name)
        /\ ctor_tmp' = m.suffix
  /\ UNCHANGED <<ctorPc, tpl, this_method, this_re, req_in, m_out, serverVars>>

RewriteStep_rewritesCopy ==
  /\ ctorPc = "loop"
  /\ \E m \in {NamedParamSearch(ctor_tmp)} :
        /\ m.found
        /\ this_is_re' = TRUE
        /\ this_names' = Append(this_names, m.name)
        /\ ctor_tmp' = Replace(m.suffix, m.tok, <<"(">> \o m.expr \o <<")">>)
  /\ UNCHANGED <<ctorPc, tpl, this_path, this_method, this_re, req_in, m_out,
                 serverVars>>

RewriteStep_keepsTmp ==
  /\ ctorPc = "loop"
  /\ \E m \in {NamedParamSearch(ctor_tmp)} :
        /\ m.found
        /\ this_is_re' = TRUE
        /\ this_path' = Replace(this_path, m.tok, <<"(">> \o m.expr \o <<")">>)
        /\ this_names' = Append(this_names, m.name)
  /\ UNCHANGED <<ctorPc, tpl, ctor_tmp, this_method, this_re, req_in, m_out,
                 serverVars>>

\* one iteration of the while loop of the constructor
RewriteStep ==
  /\ ctorPc = "loop"
  /\ \E m \in {NamedParamSearch(ctor_tmp)} :
        /\ m.found
        /\ this_is_re' = TRUE
        /\ this_path' = Replace(this_path, m.tok, <<"(">> \o m.expr \o <<")">>)
        /\ this_names' = Append(this_names, m.name)
        /\ ctor_tmp' = m.suffix
  /\ UNCHANGED <<ctorPc, tpl, this_method, this_re, req_in, m_out, serverVars>>

\* the loop is left and the constructor returns: re is built when is_re
CtorReturns ==
  /\ ctorPc = "loop"
  /\ ~NamedParamSearch(ctor_tmp).found
  /\ LET re == IF this_is_re THEN RegexCompile(this_path) ELSE NoRegex
     IN /\ re.ok
        /\ this_re' = re
  /\ ctorPc' = "built"
  /\ UNCHANGED <<tpl, ctor_tmp, this_path, this_names, this_is_re, this_method,
                 req_in, m_out, serverVars>>

\* the loop is left and std::regex throws out of the constructor
CtorThrows ==
  /\ ctorPc = "loop"
  /\ ~NamedParamSearch(ctor_tmp).found
  /\ this_is_re
  /\ ~RegexCompile(this_path).ok
  /\ ctorPc' = "threw"
  /\ UNCHANGED <<tpl, ctor_tmp, this_path, this_names, this_is_re, this_method,
                 this_re, req_in, m_out, serverVars>>

\* the route the constructor has built
ThisRoute ==
  [is_re |-> this_is_re, method |-> this_method, path |-> this_path,
   names |-> this_names, re |-> this_re, handler |-> 0]

\* http_route::matches called once on the finished route
MatchesCall ==
  /\ ctorPc = "built"
  /\ \E req \in MatchRequests(tpl) :
       /\ req_in' = req
       /\ m_out' = Matches(ThisRoute, req)
  /\ ctorPc' = "called"
  /\ UNCHANGED <<tpl, ctor_tmp, this_path, this_names, this_is_re, this_method,
                 this_re, serverVars>>

RouteNext ==
  \/ RewriteStep
  \/ CtorReturns
  \/ CtorThrows
  \/ MatchesCall

\* the server stands by as constructed while one route is built and used
RouteInit == ServerInit /\ CtorInit

RouteSpec == RouteInit /\ [][RouteNext]_vars

\* the thread running the constructor keeps running its loop
RouteFairSpec == RouteSpec /\ WF_vars(RewriteStep)

\* the loop run a step at a time builds the route NewRoute builds
StepwiseIsNewRoute ==
  /\ ctorPc \in {"built", "called"} =>
       LET r == NewRoute(tpl, 0, this_method) IN r.ok /\ r.route = ThisRoute
  /\ ctorPc = "threw" => ~NewRoute(tpl, 0, this_method).ok

(***************************************************************************)
(* Claims about one route                                                  *)
(***************************************************************************)
MethodAccepted == this_method = ANY \/ this_method = req_in.method

(* C11: for a literal route (a template without a named-parameter token)   *)
(* matches returns true exactly when the request path equals the template  *)
(* character for character and the route's method is ANY or the request's  *)
(* method; with any other path, or another method, it returns false.       *)
C11_LiteralMatch ==
  (ctorPc = "called" /\ ~this_is_re) =>
    (m_out.ok <=> (req_in.path = tpl /\ MethodAccepted))

\* a literal route bound to one method has accepted the request whose path
\* is its template
C11_Witness ==
  /\ ctorPc = "called"
  /\ ~this_is_re
  /\ tpl = <<"a">>
  /\ this_method = "GET"
  /\ m_out.ok

\* what the search of the finished route's regex finds in the request path
Found == RegexSearch(this_re, req_in.path)

CountsAgree == Found.ok /\ Found.size = Len(this_names) + 1

\* the name declared i-th is not declared again further right
LastOfItsName(i) == \A j \in (i + 1)..Len(this_names) : this_names[j] # this_names[i]

RegexCalled == ctorPc = "called" /\ this_is_re /\ MethodAccepted

\* C12 as stated: every declared name holds its own group after a match
C12_EveryGroupBound ==
  RegexCalled =>
    /\ CountsAgree =>
         /\ m_out.ok
         /\ \A i \in 1..Len(this_names) :
              m_out.req.parameters[this_names[i]] = Found.caps[i]
    /\ (Found.ok /\ ~CountsAgree) => ~m_out.ok

(* C12: for a regex route whose method accepts the request, when the       *)
(* search finds a match whose group count equals the name count the match  *)
(* succeeds and the i-th group is bound to the i-th declared name, left to *)
(* right, so that a name declared more than once is left holding the group *)
(* of its last declaration; every name declared once holds its own group   *)
(* and parameters the route does not name are kept.  When the search finds *)
(* nothing or the counts differ the match fails.                           *)
C12_GroupsBoundInOrder ==
  RegexCalled =>
    /\ CountsAgree =>
         /\ m_out.ok
         /\ DOMAIN m_out.req.parameters =
              DOMAIN req_in.parameters \cup {this_names[i] : i \in 1..Len(this_names)}
         /\ \A i \in 1..Len(this_names) :
              LastOfItsName(i) => m_out.req.parameters[this_names[i]] = Found.caps[i]
         /\ \A n \in DOMAIN req_in.parameters :
              (\A i \in 1..Len(this_names) : this_names[i] # n)
                => m_out.req.parameters[n] = req_in.parameters[n]
    /\ ~CountsAgree => ~m_out.ok

\* two names declared in order hold two different groups of one path
C12_Witness ==
  /\ RegexCalled
  /\ m_out.ok
  /\ this_names = << <<"x">>, <<"y">> >>
  /\ m_out.req.parameters[<<"x">>] = <<"a">>
  /\ m_out.req.parameters[<<"y">>] = <<"b">>

Compiled == ctorPc \in {"built", "called"}

\* the number of opening parentheses of a text
NumOpen(s) == Cardinality({i \in 1..Len(s) : s[i] = "("})

\* C13 as stated: every compiled route has as many groups as names
C13_GroupsEqualNames == Compiled => this_re.ngroups = Len(this_names)

(* C13: for every template that compiles into a route and whose only       *)
(* opening parentheses are those of the tokens the rewrite loop finds (no  *)
(* parenthesis in a literal part or inside a token expression), the number *)
(* of capture groups of the compiled matcher equals the number of recorded *)
(* names.                                                                  *)
C13_GroupsEqualNamesOfPlainTemplate ==
  (Compiled /\ NumOpen(tpl) = Len(this_names)) => this_re.ngroups = Len(this_names)

\* a template of two tokens has compiled into two groups for two names
C13_Witness ==
  /\ Compiled
  /\ NumOpen(tpl) = 2
  /\ Len(this_names) = 2
  /\ this_re.ngroups = 2

LoopDone == ctorPc \in {"built", "threw", "called"}

\* where the token pattern matches in a text, and the names found there
\* from left to right
TokenStarts(s) == {i \in 1..Len(s) : TokenAt(s, i).found}

NthOf(S, k) == CHOOSE i \in S : Cardinality({j \in S : j < i}) = k - 1

TokenNames(s) ==
  [k \in 1..Cardinality(TokenStarts(s)) |-> TokenAt(s, NthOf(TokenStarts(s), k)).name]

\* every ':' of the text opens a token and no token expression holds a ':'
EveryColonOpensToken(s) ==
  \A i \in 1..Len(s) :
    s[i] = ":" => /\ TokenAt(s, i).found
                  /\ \A k \in 1..Len(TokenAt(s, i).expr) : TokenAt(s, i).expr[k] # ":"

\* C14 as stated: no token is left and every token has its one name
C14_NoTokenLeft ==
  LoopDone => /\ ~NamedParamSearch(this_path).found
              /\ this_names = TokenNames(tpl)

(* C14: when the rewrite loop of the constructor has finished on a         *)
(* template in which every ':' opens a token and no token expression       *)
(* contains a ':', the rewritten template contains no token of the form    *)
(* :name(expr) any more and the names list holds exactly one entry for     *)
(* every token of the template, in their order from left to right.         *)
C14_NoTokenLeftOfPlainTemplate ==
  (LoopDone /\ EveryColonOpensToken(tpl)) =>
     /\ ~NamedParamSearch(this_path).found
     /\ this_names = TokenNames(tpl)

\* a template of two such tokens has been rewritten
C14_Witness ==
  /\ LoopDone
  /\ EveryColonOpensToken(tpl)
  /\ Cardinality(TokenStarts(tpl)) = 2
  /\ this_path # tpl

\* the condition of the while loop is false, or the loop is behind
LoopLeft == ctorPc # "loop" \/ ~NamedParamSearch(ctor_tmp).found

\* every iteration of the rewrite loop leaves less text to scan
C15_ShortensTmp ==
  [][(ctorPc = "loop" /\ ctorPc' = "loop") => Len(ctor_tmp') < Len(ctor_tmp)]_vars

(* C15: the rewrite loop of the constructor terminates for every template, *)
(* malformed ones and ones whose rewritten text again holds a token        *)
(* included: each iteration strictly shortens the text still to be         *)
(* scanned, and the condition of the loop always becomes false.            *)
C15_RewriteLoopTerminates == C15_ShortensTmp /\ <>LoopLeft

\* the loop has ended although the rewritten text holds a token again
C15_Witness ==
  /\ LoopDone
  /\ Len(this_names) >= 1
  /\ NamedParamSearch(this_path).found

(***************************************************************************)
(* Claims about the steps of one consume() cycle                           *)
(***************************************************************************)
\* the place of an event in the cycle of a connection
Rank(ev) ==
  CASE ev.e = "enq" -> 0
    [] ev.e = "take" -> 1
    [] ev.e = "read" -> 2
    [] ev.e = "parse" -> 3
    [] ev.e \in {"call", "throw", "notfound"} -> 4
    [] ev.e = "send" -> 5
    [] ev.e = "release" -> 6

\* event i of connection c comes directly after an event that allows it
Allowed(c, i) ==
  LET ev == trace[c][i]
      before == trace[c][i - 1]
  IN CASE ev.e \in {"call", "throw", "notfound"} ->
            i > 1 /\ before.e = "parse" /\ before.a = 1
       [] ev.e = "parse" -> i > 1 /\ before.e = "read" /\ before.a > 0
       [] ev.e = "send" -> i > 1 /\ before.e \in {"call", "notfound"}
       [] ev.e = "release" ->
            i > 1 /\ \/ before.e = "send"
                     \/ before.e = "read" /\ before.a <= 0
                     \/ before.e = "parse" /\ before.a # 1
       [] OTHER -> TRUE

(* C16: within one connection the steps of the worker occur in the strict  *)
(* order read, parse, dispatch, send, release, each at most once: parse    *)
(* only after a positive read, dispatch only after a successful parse,     *)
(* send only after dispatch has returned, and release only after the send  *)
(* attempt, or straight after a failed read or a failed parse.             *)
C16_StepsInOrder ==
  \A c \in Conns :
    /\ \A i, j \in 1..Len(trace[c]) : i < j => Rank(trace[c][i]) < Rank(trace[c][j])
    /\ \A i \in 1..Len(trace[c]) : Allowed(c, i)

\* a connection has gone through all five steps
C16_Witness ==
  \E c \in Conns :
    /\ Count(c, "read") = 1
    /\ Count(c, "parse") = 1
    /\ Count(c, "call") = 1
    /\ Count(c, "send") = 1
    /\ Count(c, "release") = 1

\* the read of connection c returned a positive count and its parse succeeded
ReadAndParsed(c) ==
  /\ Pos(c, "read") > 0 /\ Arg(c, "read") > 0
  /\ Pos(c, "parse") > 0 /\ Arg(c, "parse") = 1

\* the handler threw in the cycle of connection c, which ended the process
Thrown(c) == Count(c, "throw") = 1

\* what holds of send on every path but the one of a throwing handler: at
\* most one send, only after a positive read and a successful parse, one on
\* every such cycle that reaches its release, and after a short send the
\* worker stands at its return or has gone on
C17_SendOnceUnlessThrown ==
  \A c \in Conns :
    /\ Count(c, "send") <= 1
    /\ Count(c, "send") = 1 => ReadAndParsed(c)
    /\ (Released(c) /\ ReadAndParsed(c)) => Count(c, "send") = 1
    /\ ExitPath(c) = "short_send" => (Released(c) \/ AtRelease(c))

(* C17: for each connection the worker calls send at most once: exactly    *)
(* once when the read returned a positive count and parsing succeeded, and *)
(* never otherwise; a short send is not retried and the worker still       *)
(* finishes the cycle.  The claim is judged when the cycle of the          *)
(* connection is over: the connection was released, or the handler threw.  *)
C17_SendExactlyOnce ==
  \A c \in Conns :
    /\ Count(c, "send") <= 1
    /\ Count(c, "send") = 1 => ReadAndParsed(c)
    /\ ((Released(c) \/ Thrown(c)) /\ ReadAndParsed(c)) => Count(c, "send") = 1
    /\ ExitPath(c) = "short_send" => (Released(c) \/ AtRelease(c))

\* what route k of the table alone binds for a request path: its groups
\* under its names, nothing when it is a literal route
OwnBindings(k, path) ==
  IF _routes[k].is_re
  THEN Bind(<<>>, _routes[k].names, RegexSearch(_routes[k].re, path).caps, 1)
  ELSE <<>>

(* C18: a call of matches that returns false leaves request.parameters     *)
(* unchanged, whatever made it fail (method, literal path, no regex match, *)
(* group count): while route() has only rejected routes the request        *)
(* carries no parameter, and once a handler has been invoked the request   *)
(* carries exactly the bindings of that winning route; it carries none     *)
(* when no route matched.                                                  *)
C18_RejectedRoutesBindNothing ==
  \A w \in Workers :
    (Dispatching(w) \/ Dispatched(w)) =>
       request[w].parameters =
         IF Invoked(client[w]) = <<>> THEN <<>>
         ELSE OwnBindings(Invoked(client[w])[1], request[w].path)

\* a regex route whose search found the path was rejected on its group
\* count, and the route after it won and bound its own name
C18_Witness ==
  \E w \in Workers :
    /\ Dispatched(w)
    /\ Invoked(client[w]) = <<2>>
    /\ _routes[1].is_re
    /\ RegexSearch(_routes[1].re, request[w].path).ok
    /\ (_routes[1].method = ANY \/ _routes[1].method = request[w].method)
    /\ DOMAIN request[w].parameters = { <<"x">> }

(***************************************************************************)
(* Claims about progress                                                   *)
(***************************************************************************)
Queued(c) == Count(c, "enq") = 1

(* C19: with the workers started, every thread scheduled fairly and every  *)
(* read and send returning, every connection put on the queue is           *)
(* eventually taken by a worker and its cycle eventually completes with    *)
(* its release, whatever happens to the connections before it; only the    *)
(* destruction of the server may cut this short.                           *)
C19_EveryConnectionServed ==
  \A c \in Conns : Queued(c) ~> (Released(c) \/ dtorPc # "none")

(***************************************************************************)
(* Claims about registration                                               *)
(***************************************************************************)
\* the step in which route() lets the exception of the constructor out
RegistrationFails == mainPc = "setup" /\ mainPc' = "route_failed"

\* a step of the setup code that changes the table
TableChanges == mainPc = "setup" /\ _routes' # _routes

\* the template is rejected by std::regex once its tokens are rewritten
Rejected(rs) == ~NewRoute(rs.path, 0, rs.method).ok

(* C20: when registering a route fails because the rewritten template is   *)
(* not a valid regex, the error reaches the caller of route() and the      *)
(* table is exactly what it was before the call; a registration that       *)
(* succeeds appends exactly one route, that of a template std::regex       *)
(* accepts, at the end and leaves the routes before it as they were.       *)
C20_RegistrationAtomic ==
  /\ [][RegistrationFails => _routes' = _routes]_vars
  /\ [][TableChanges =>
          /\ mainPc' = "setup"
          /\ Len(_routes') = Len(_routes) + 1
          /\ SubSeq(_routes', 1, Len(_routes)) = _routes
          /\ \E rs \in RouteSpecs :
               /\ ~Rejected(rs)
               /\ _routes'[Len(_routes')] =
                    NewRoute(rs.path, Len(_routes'), rs.method).route]_vars
  /\ [](\A k \in 1..Len(_routes) : _routes[k].re.ok)

\* a registration has failed after another had succeeded, and the table
\* holds the one route of before
C20_Witness ==
  /\ mainPc = "route_failed"
  /\ Len(_routes) = 1
  /\ \E rs \in RouteSpecs : Rejected(rs)

=============================================================================
